---- MODULE Spec2Model ----
(***************************************************************************)
(* Bootstrap of the S3 source connector (v4_main.py): get_source builds    *)
(* the connector inside one try/except, the driver launches it when a      *)
(* truthy value came back.                                                 *)
(*                                                                         *)
(* The script is straight-line code; the model steps from one external     *)
(* call to the next (pc), and the outcome of every external call is fixed  *)
(* by the environment (env) chosen in Init.                                *)
(***************************************************************************)
EXTENDS Integers, Sequences, FiniteSets, TLC

VARIABLES
    sys_argv,      \* the process's argument vector, program name first
    env,           \* what the collaborators do in this run (files, signals)
    pc,            \* position of the script
    args,          \* _args of the driver = args of get_source (same list)
    catalog_path,  \* local of get_source
    source,        \* value get_source returned (None until it returns)
    exc,           \* exception in flight, NoExc when there is none
    stdout,        \* records written to standard output, in order
    launched,      \* calls of launch(source, args), in order
    events         \* history of the external calls, in order

vars == <<sys_argv, env, pc, args, catalog_path, source, exc, stdout, launched, events>>

\* ------------------------------------------------------------------ bounds

\* longest argument list (program name excluded)
MaxArgs == 3
\* largest reading of the clock, in epoch milliseconds
MaxClock == 2

\* ------------------------------------------------------------ Python values

None == [cls |-> "NoneType"]

Str(s) == [cls |-> "str", value |-> s]

NoExc == [cls |-> "NoneType"]

ProgramName == "v4_main.py"

CatalogFlag == "--catalog"

Tokens == {CatalogFlag, "catalog.json", "--config", "read"}

ArgLists == UNION {[1..n -> Tokens] : n \in 0..MaxArgs}

\* subclasses of Exception the collaborators raise
ExceptionClasses == {"ValidationError", "OSError"}

\* exceptions deriving from BaseException but not from Exception
BaseOnlyClasses == {"KeyboardInterrupt", "SystemExit"}

Outcomes == {"ok"} \cup ExceptionClasses \cup BaseOnlyClasses

\* -------------------------------------------------------- the collaborators

\* argparse exits when the flag has no value after it
ExtractRaises(a) == Len(a) >= 1 /\ a[Len(a)] = CatalogFlag

\* AirbyteEntrypoint.extract_catalog: the value after the (last) catalog
\* flag, None when the arguments carry none
extract_catalog(a) ==
    LET at == {i \in 1..(Len(a) - 1) : a[i] = CatalogFlag}
    IN  IF at = {} THEN None
        ELSE Str(a[(CHOOSE i \in at : \A j \in at : j <= i) + 1])

\* SourceS3StreamReader(): governed by the environment
StreamReaderOutcome == env.reader

\* SourceS3(reader, Config, catalog_path, cursor_cls=Cursor): fails without a
\* catalog path, otherwise governed by the environment
SourceS3Outcome(path) ==
    IF path = None THEN "ValidationError" ELSE env.ctor

\* mutant: the extracted path is dropped for a default catalog
SourceS3_DefaultCatalog(path) ==
    [cls |-> "SourceS3", stream_reader |-> "SourceS3StreamReader",
     spec_class |-> "Config", catalog_path |-> Str("catalog.json"), cursor_cls |-> "Cursor"]

\* line 19: the four arguments of the constructor call
SourceS3(path) ==
    [cls |-> "SourceS3", stream_reader |-> "SourceS3StreamReader",
     spec_class |-> "Config", catalog_path |-> path, cursor_cls |-> "Cursor"]

\* ------------------------------------------------------------ get_source

\* mutant: a clause naming one class, `except ValidationError`
Catches_ValidationErrorOnly(cls) == cls = "ValidationError"

\* line 20: `except Exception` catches instances of Exception only
Catches(cls) == cls \in ExceptionClasses

\* line 28: the message of the error record
FixedMessage ==
    "Error starting the sync. This could be due to an invalid configuration or catalog. Please contact Support for assistance."

\* line 29: traceback.format_exc() of the exception being handled
format_exc(e) ==
    IF e = NoExc THEN "NoneType: None"
    ELSE CASE e.site = "SourceS3StreamReader" ->
                "Traceback (most recent call last): get_source: SourceS3StreamReader()"
           [] e.site = "SourceS3" ->
                "Traceback (most recent call last): get_source: SourceS3()"
           [] OTHER ->
                "Traceback (most recent call last): get_source"

\* mutant: the class of the exception is reported as the message
ErrorRecord_CauseInMessage(now, e) ==
    [type |-> "TRACE",
     trace |-> [type |-> "ERROR",
                emitted_at |-> now,
                error |-> [message |-> e.cls,
                           stack_trace |-> format_exc(e)]]]

\* lines 22-32: the AirbyteMessage that is serialised; stdout holds the
\* message line by its fields, the fields the call leaves unset not shown
ErrorRecord(now, e) ==
    [type |-> "TRACE",
     trace |-> [type |-> "ERROR",
                emitted_at |-> now,
                error |-> [message |-> FixedMessage,
                           stack_trace |-> format_exc(e)]]]

\* mutant: the test of the driver always passes
Truthy_Always(v) == TRUE

\* line 40: `if source:`; None is falsy, a connector instance is truthy
Truthy(v) == v.cls # "NoneType"

\* an entry of the history: the call, how it ended ("ok" or the class of
\* the exception raised) and the catalog path it returned or was given
Event(op, result, path) == [op |-> op, result |-> result, path |-> path]

\* ------------------------------------------------------------------- Init

Init ==
    /\ sys_argv \in {<<ProgramName>> \o a : a \in ArgLists}
    /\ env \in [reader : Outcomes, ctor : Outcomes]
    /\ pc = "main"
    /\ args = <<>>
    /\ catalog_path = None
    /\ source = None
    /\ exc = NoExc
    /\ stdout = <<>>
    /\ launched = <<>>
    /\ events = <<>>

\* ---------------------------------------------------------------- actions

\* mutant: `_args = sys.argv`, the program name is kept
Main_KeepsProgramName ==
    /\ pc = "main"
    /\ args' = sys_argv
    /\ pc' = "extract_catalog"
    /\ UNCHANGED <<sys_argv, env, catalog_path, source, exc, stdout, launched, events>>

\* line 38: _args = sys.argv[1:]
Main ==
    /\ pc = "main"
    /\ args' = Tail(sys_argv)
    /\ pc' = "extract_catalog"
    /\ UNCHANGED <<sys_argv, env, catalog_path, source, exc, stdout, launched, events>>

\* line 17, returning: catalog_path = AirbyteEntrypoint.extract_catalog(args)
ExtractCatalog ==
    /\ pc = "extract_catalog"
    /\ ~ExtractRaises(args)
    /\ catalog_path' = extract_catalog(args)
    /\ events' = Append(events, Event("extract_catalog", "ok", extract_catalog(args)))
    /\ pc' = "stream_reader"
    /\ UNCHANGED <<sys_argv, env, args, source, exc, stdout, launched>>

\* line 17, raising: the call is outside the try, the exception leaves
\* get_source and the driver
ExtractCatalogRaises ==
    /\ pc = "extract_catalog"
    /\ ExtractRaises(args)
    /\ exc' = [cls |-> "SystemExit", site |-> "extract_catalog"]
    /\ events' = Append(events, Event("extract_catalog", "SystemExit", None))
    /\ pc' = "uncaught"
    /\ UNCHANGED <<sys_argv, env, args, catalog_path, source, stdout, launched>>

\* mutant: the stream reader is built before the try statement
StreamReader_OutsideTry ==
    /\ pc = "stream_reader"
    /\ events' = Append(events, Event("SourceS3StreamReader", StreamReaderOutcome, None))
    /\ IF StreamReaderOutcome = "ok"
       THEN /\ pc' = "construct"
            /\ exc' = exc
       ELSE /\ pc' = "uncaught"
            /\ exc' = [cls |-> StreamReaderOutcome, site |-> "SourceS3StreamReader"]
    /\ UNCHANGED <<sys_argv, env, args, catalog_path, source, stdout, launched>>

\* line 19, first the argument SourceS3StreamReader() is evaluated
StreamReader ==
    /\ pc = "stream_reader"
    /\ events' = Append(events, Event("SourceS3StreamReader", StreamReaderOutcome, None))
    /\ IF StreamReaderOutcome = "ok"
       THEN /\ pc' = "construct"
            /\ exc' = exc
       ELSE /\ pc' = "except"
            /\ exc' = [cls |-> StreamReaderOutcome, site |-> "SourceS3StreamReader"]
    /\ UNCHANGED <<sys_argv, env, args, catalog_path, source, stdout, launched>>

\* mutant: the record is written in a `finally` clause, on success too
Construct_Finally ==
    /\ pc = "construct"
    /\ LET handle == SourceS3(catalog_path)
           outcome == SourceS3Outcome(handle.catalog_path)
       IN  /\ events' = Append(events, Event("SourceS3", outcome, handle.catalog_path))
           /\ IF outcome = "ok"
              THEN /\ source' = handle
                   /\ pc' = "if_source"
                   /\ exc' = exc
                   /\ \E now \in 0..MaxClock :
                         stdout' = Append(stdout, ErrorRecord(now, exc))
              ELSE /\ source' = source
                   /\ pc' = "except"
                   /\ exc' = [cls |-> outcome, site |-> "SourceS3"]
                   /\ stdout' = stdout
    /\ UNCHANGED <<sys_argv, env, args, catalog_path, launched>>

\* line 19: return SourceS3(SourceS3StreamReader(), Config, catalog_path, cursor_cls=Cursor)
Construct ==
    /\ pc = "construct"
    /\ LET handle == SourceS3(catalog_path)
           outcome == SourceS3Outcome(handle.catalog_path)
       IN  /\ events' = Append(events, Event("SourceS3", outcome, handle.catalog_path))
           /\ IF outcome = "ok"
              THEN /\ source' = handle
                   /\ pc' = "if_source"
                   /\ exc' = exc
              ELSE /\ source' = source
                   /\ pc' = "except"
                   /\ exc' = [cls |-> outcome, site |-> "SourceS3"]
    /\ UNCHANGED <<sys_argv, env, args, catalog_path, stdout, launched>>

\* mutant: the handler returns None without writing the record
ExceptHandler_NoRecord ==
    /\ pc = "except"
    /\ Catches(exc.cls)
    /\ source' = None
    /\ exc' = NoExc
    /\ pc' = "if_source"
    /\ UNCHANGED <<sys_argv, env, args, catalog_path, stdout, launched, events>>

\* mutant: the handler writes the record and tries the construction again
ExceptHandler_Retry ==
    /\ pc = "except"
    /\ Catches(exc.cls)
    /\ \E now \in 0..MaxClock :
          stdout' = Append(stdout, ErrorRecord(now, exc))
    /\ events' = Append(events, Event("print", "ok", None))
    /\ exc' = NoExc
    /\ pc' = "stream_reader"
    /\ UNCHANGED <<sys_argv, env, args, catalog_path, source, launched>>

\* lines 20-34: the handler prints one record and returns None
ExceptHandler ==
    /\ pc = "except"
    /\ Catches(exc.cls)
    /\ \E now \in 0..MaxClock :
          stdout' = Append(stdout, ErrorRecord(now, exc))
    /\ events' = Append(events, Event("print", "ok", None))
    /\ source' = None
    /\ exc' = NoExc
    /\ pc' = "if_source"
    /\ UNCHANGED <<sys_argv, env, args, catalog_path, launched>>

\* line 20: an exception the clause does not match leaves get_source and
\* the driver
Propagate ==
    /\ pc = "except"
    /\ ~Catches(exc.cls)
    /\ pc' = "uncaught"
    /\ UNCHANGED <<sys_argv, env, args, catalog_path, source, exc, stdout, launched, events>>

\* mutant: the test is negated, `if not source:`
IfSource_Negated ==
    /\ pc = "if_source"
    /\ pc' = IF ~Truthy(source) THEN "launch" ELSE "exit"
    /\ UNCHANGED <<sys_argv, env, args, catalog_path, source, exc, stdout, launched, events>>

\* line 40: if source:
IfSource ==
    /\ pc = "if_source"
    /\ pc' = IF Truthy(source) THEN "launch" ELSE "exit"
    /\ UNCHANGED <<sys_argv, env, args, catalog_path, source, exc, stdout, launched, events>>

\* line 41: launch(source, _args); the launcher owns the process from here
Launch ==
    /\ pc = "launch"
    /\ launched' = Append(launched, [source |-> source, args |-> args])
    /\ events' = Append(events, Event("launch", "ok", None))
    /\ pc' = "exit"
    /\ UNCHANGED <<sys_argv, env, args, catalog_path, source, exc, stdout>>

Next ==
    \/ Main
    \/ ExtractCatalog
    \/ ExtractCatalogRaises
    \/ StreamReader
    \/ Construct
    \/ ExceptHandler
    \/ Propagate
    \/ IfSource
    \/ Launch

Spec == Init /\ [][Next]_vars

\* straight-line code: the one thread of the script always takes its next step
FairSpec == Spec /\ WF_vars(Next)

\* --------------------------------------------------- vocabulary of the claims

\* get_source has returned to the driver
Returned == pc \in {"if_source", "launch", "exit"}

\* get_source is over: it returned, or an exception left it
GetSourceOver == Returned \/ pc = "uncaught"

\* positions of the history at which `op` was called
Ops(op) == {i \in DOMAIN events : events[i].op = op}

ConstructionOps == Ops("SourceS3StreamReader") \cup Ops("SourceS3")

\* line 19 raised, in the stream reader or in the connector constructor
ConstructionThrew == \E i \in ConstructionOps : events[i].result # "ok"

\* line 19 raised an instance of Exception
ConstructionThrewException ==
    \E i \in ConstructionOps : events[i].result \in ExceptionClasses

\* some call raised an exception outside the Exception hierarchy
RaisedBaseOnly == \E i \in DOMAIN events : events[i].result \in BaseOnlyClasses

\* extraction resolved no catalog path: it returned None
PathUnresolved ==
    \E i \in Ops("extract_catalog") : events[i].result = "ok" /\ events[i].path = None

\* a record of the wire shape carrying the fixed message and a stack trace
WellFormed(r) ==
    /\ DOMAIN r = {"type", "trace"}
    /\ r.type = "TRACE"
    /\ DOMAIN r.trace = {"type", "emitted_at", "error"}
    /\ r.trace.type = "ERROR"
    /\ r.trace.emitted_at \in Nat
    /\ DOMAIN r.trace.error = {"message", "stack_trace"}
    /\ r.trace.error.message = FixedMessage
    /\ r.trace.error.stack_trace # ""

\* get_source returned None having written exactly one well-formed record
FailureContract ==
    /\ Returned
    /\ source = None
    /\ Len(stdout) = 1
    /\ WellFormed(stdout[1])

\* ------------------------------------------------------------------------ C1

C2_LaunchOnceWithHandleAndArgs ==
    /\ Len(launched) <= 1
    /\ (Returned /\ source # None) =>
          /\ args = Tail(sys_argv)
          /\ pc = "exit" => launched = <<[source |-> source, args |-> Tail(sys_argv)]>>
          /\ pc # "exit" => launched = <<>>

\* the launcher was invoked with a handle and a three-element argument list
C2_Witness ==
    /\ pc = "exit"
    /\ source # None
    /\ Len(launched) = 1
    /\ Len(launched[1].args) = 3

\* ------------------------------------------------------------------------ C3

\* C3: when get_source returned the absent value the launcher is never
\* invoked: the number of launcher invocations stays zero.
C3_NoLaunchWithoutSource ==
    (Returned /\ source = None) => (launched = <<>> /\ pc # "launch")

\* the driver finished after get_source returned None
C3_Witness ==
    /\ pc = "exit"
    /\ source = None
    /\ launched = <<>>
    /\ Len(stdout) = 1

\* ------------------------------------------------------------------------ C4

\* the arguments and the environment let construction succeed
AllowsSuccess ==
    /\ ~ExtractRaises(Tail(sys_argv))
    /\ StreamReaderOutcome = "ok"
    /\ SourceS3Outcome(extract_catalog(Tail(sys_argv))) = "ok"

\* C4: for every argument list that allows successful construction,
\* get_source returns a non-absent handle (the connector built from the
\* extracted path) and nothing is ever written to standard output.
C4_SuccessReturnsHandleSilently ==
    AllowsSuccess =>
        /\ stdout = <<>>
        /\ pc # "uncaught"
        /\ Returned => (source # None /\ source = SourceS3(extract_catalog(Tail(sys_argv))))

\* get_source returned the connector built from catalog.json
C4_Witness ==
    /\ AllowsSuccess
    /\ pc = "if_source"
    /\ source.cls = "SourceS3"
    /\ source.catalog_path = Str("catalog.json")

\* ------------------------------------------------------------------------ C5

\* connector instances obtained so far
Constructed == {i \in Ops("SourceS3") : events[i].result = "ok"}

\* C5: in every reachable state at most one connector instance has been
\* constructed, at most one error record has been emitted, and never both.
C5_AtMostOneInstanceOrRecord ==
    /\ Cardinality(Constructed) <= 1
    /\ Len(stdout) <= 1
    /\ Cardinality(Constructed) + Len(stdout) <= 1

\* a record was emitted and no instance exists although the constructor ran
C5_Witness ==
    /\ Len(stdout) = 1
    /\ Constructed = {}
    /\ Ops("SourceS3") # {}

\* ------------------------------------------------------------------------ C6

\* no crash; once get_source returned, the record is out and nothing launched
CaughtAndReported ==
    /\ pc # "uncaught"
    /\ Returned => (Len(stdout) = 1 /\ source = None /\ launched = <<>>)

Masked(r) ==
    [r EXCEPT !.trace.emitted_at = 0, !.trace.error.stack_trace = ""]

\* C7: every record emitted has type TRACE, trace.type ERROR and the one
\* fixed message whatever the cause: apart from emitted_at and stack_trace
\* it is one constant record, so two failing runs differ in those two only.
C7_RecordIndependentOfCause ==
    \A i \in DOMAIN stdout :
        Masked(stdout[i]) =
            [type |-> "TRACE",
             trace |-> [type |-> "ERROR",
                        emitted_at |-> 0,
                        error |-> [message |-> "Error starting the sync. This could be due to an invalid configuration or catalog. Please contact Support for assistance.",
                                   stack_trace |-> ""]]]

\* a record emitted for an OSError of the stream reader
C7_Witness ==
    /\ Len(stdout) = 1
    /\ \E i \in Ops("SourceS3StreamReader") : events[i].result = "OSError"
    /\ stdout[1].trace.emitted_at = MaxClock

\* ------------------------------------------------------------------------ C8

EmptyArgs == sys_argv = <<ProgramName>>

C9_LaunchAfterExtractThenConstruct ==
    /\ Len(launched) = Cardinality(Ops("launch"))
    /\ \A k \in Ops("launch") :
          /\ Cardinality({i \in Ops("extract_catalog") : i < k}) = 1
          /\ Cardinality({j \in Ops("SourceS3") : j < k}) = 1
          /\ \E i \in Ops("extract_catalog"), j \in Ops("SourceS3") :
                /\ i < j
                /\ j < k
                /\ events[i].result = "ok"
                /\ events[j].result = "ok"
                /\ events[j].path = events[i].path
                /\ launched[1].source.catalog_path = events[i].path
    /\ (\E i \in Ops("extract_catalog") \cup ConstructionOps : events[i].result # "ok")
          => (launched = <<>> /\ pc # "launch")

\* the launcher ran as the fourth call, after extraction, reader and connector
C9_Witness ==
    /\ Ops("launch") = {4}
    /\ Ops("extract_catalog") = {1}
    /\ Ops("SourceS3") = {3}
    /\ Len(launched) = 1

\* ----------------------------------------------------------------------- C10

StreamReaderThrew == \E i \in Ops("SourceS3StreamReader") : events[i].result # "ok"

StreamReaderThrewException ==
    \E i \in Ops("SourceS3StreamReader") : events[i].result \in ExceptionClasses

====
